---- MODULE Spec2Model ----
(***************************************************************************)
(* Model of two parts of celestia-app:                                     *)
(*   pkg/shares/share_splitting.go   Split, ExtractShareIndexes, SplitTxs, *)
(*                                   SplitEvidence, SplitMessages          *)
(*   test/testground/network/sync.go SyncStatus, publishNewBornStatus,     *)
(*                                   downloadNewBornStatuses, DownloadSync *)
(* Spec     runs one call of Split step by step over bounded inputs.       *)
(* SpecSync runs NInstances test instances that each call SyncStatus.      *)
(***************************************************************************)
EXTENDS Integers, Sequences, FiniteSets, TLC

(* ------------------------------ bounds -------------------------------- *)
MaxTxs == 2
MaxEvd == 1
MaxMsgs == 2
MaxShareIndex == 7
MaxMsgShares == 2
MaxSquareSize == 4
NInstances == 3

(* --------------------- namespaces (order-preserving) ------------------- *)
\* consts.TxNamespaceID < consts.EvidenceNamespaceID < message namespaces
\* < consts.TailPaddingNamespaceID; the 8-byte identifiers are modelled by
\* small integers that keep their order.
TxNamespaceID == 1
EvidenceNamespaceID == 3
TailPaddingNamespaceID == 9
MsgNamespaces == {5, 6}

(* ------------------------------ inputs -------------------------------- *)
SeqsUpTo(S, n) == UNION {[1..k -> S] : k \in 0..n}

\* A transaction: UnwrapMalleatedTx gives isMalleated and ShareIndex. Every
\* payload fills one compact share.
TxKinds ==
    {[wrapped |-> FALSE, ShareIndex |-> 0]}
        \cup {[wrapped |-> TRUE, ShareIndex |-> s] : s \in 0..MaxShareIndex}

\* An evidence item: ok = FALSE when WriteEvidence fails to encode it.
EvdKinds == {[ok |-> TRUE], [ok |-> FALSE]}

\* A message: its namespace and the number of shares its Data needs.
MsgKinds == [ns : MsgNamespaces, len : 1..MaxMsgShares]

TxLists == SeqsUpTo(TxKinds, MaxTxs)
EvdLists == SeqsUpTo(EvdKinds, MaxEvd)
MsgLists == SeqsUpTo(MsgKinds, MaxMsgs)
SquareSizes == 0..MaxSquareSize

(* ------------------------------ shares -------------------------------- *)
\* A share: its namespace, what wrote it, and for a message share the
\* message's position in MessagesList and the share's position in it.
Share(ns, kind, m, p) == [ns |-> ns, kind |-> kind, msg |-> m, part |-> p]

\* Go's nil slice of indexes is kept apart from a non-nil one.
NilIndexes == [nil |-> TRUE, elems |-> <<>>]
SomeIndexes(s) == [nil |-> FALSE, elems |-> s]

NoShares == <<>>

(* --------------------------- pure helpers ------------------------------ *)
powerOf2(v) == \E k \in 0..MaxSquareSize : v = 2 ^ k

RECURSIVE LargestPowerOfTwoLE(_)
LargestPowerOfTwoLE(n) == IF n <= 1 THEN 1 ELSE 2 * LargestPowerOfTwoLE(n \div 2)

Min(a, b) == IF a <= b THEN a ELSE b

roundUpBy(cursor, v) ==
    IF cursor % v = 0 THEN cursor ELSE ((cursor \div v) + 1) * v

\* The first index >= cursor that is a multiple of the largest power of two
\* not exceeding min(msgLen, k).
NextAlignedPowerOfTwo(cursor, msgLen, k) ==
    roundUpBy(cursor, LargestPowerOfTwoLE(Min(msgLen, k)))

MsgSharesUsed(len) == len

\* n shares of namespace ns (n >= 0; a negative n panics in make()).
namespacedPaddedShares(ns, n) == [j \in 1..n |-> Share(ns, "pad", 0, 0)]

TailPaddingShares(n) == [j \in 1..n |-> Share(TailPaddingNamespaceID, "tail", 0, 0)]

SplitTxs(t) == [j \in 1..Len(t) |-> Share(TxNamespaceID, "tx", 0, 0)]

\* SplitEvidence: (shares, err); err when some item fails to encode.
EvidenceFails(e) == \E j \in 1..Len(e) : ~e[j].ok
SplitEvidence(e) ==
    IF EvidenceFails(e) THEN NoShares
    ELSE [j \in 1..Len(e) |-> Share(EvidenceNamespaceID, "evd", 0, 0)]

\* The loop of ExtractShareIndexes from transaction j on, acc collected so far.
RECURSIVE ExtractFrom(_, _, _)
ExtractFrom(t, j, acc) ==
    IF j > Len(t) THEN acc
    ELSE IF t[j].wrapped
         THEN IF t[j].ShareIndex = 0
              THEN NilIndexes
              ELSE ExtractFrom(t, j + 1, SomeIndexes(Append(acc.elems, t[j].ShareIndex)))
         ELSE ExtractFrom(t, j + 1, acc)

\* A variant that skips a wrapped transaction with ShareIndex 0 instead of
\* giving up the whole block.
ExtractShareIndexesSkipZero(t) ==
    LET kept == SelectSeq(t, LAMBDA x : x.wrapped /\ x.ShareIndex # 0) IN
    IF kept = <<>> THEN NilIndexes
    ELSE SomeIndexes([j \in 1..Len(kept) |-> kept[j].ShareIndex])

ExtractShareIndexes(t) == ExtractFrom(t, 1, NilIndexes)

\* sort.Slice with i < j: insertion into an ascending sequence.
RECURSIVE InsertAsc(_, _)
InsertAsc(s, x) ==
    IF s = <<>> THEN <<x>>
    ELSE IF x < Head(s) THEN <<x>> \o s
    ELSE <<Head(s)>> \o InsertAsc(Tail(s), x)

RECURSIVE SortAsc(_)
SortAsc(s) == IF s = <<>> THEN <<>> ELSE InsertAsc(SortAsc(Tail(s)), Head(s))

SortIndexes(ix) == IF ix.nil THEN ix ELSE SomeIndexes(SortAsc(ix.elems))

\* writer.Write(msg): the shares of message number m.
MessageShares(msg, m) ==
    [j \in 1..MsgSharesUsed(msg.len) |-> Share(msg.ns, "msg", m, j)]

(* ------------------------------- state -------------------------------- *)
VARIABLES
    pc,                 \* position in Split / SplitMessages
    squareSize, txs, evidence, msgs,      \* data: each field of the read-only
                                          \* input is drawn where Split first reads it
    currentShareCount,
    txShares, evdShares, msgIndexes, padding, msgShares, tailShares,
    cursor, indexes, i, writer,           \* SplitMessages' locals
    smErr,              \* SplitMessages' returned error
    shares, err, outcome,                 \* Split's result
    topics, ipc, output, serr, configPublished   \* test instances

splitVars ==
    <<pc, squareSize, txs, evidence, msgs, currentShareCount, txShares,
      evdShares, msgIndexes, padding, msgShares, tailShares, cursor, indexes,
      i, writer, smErr, shares, err, outcome>>
syncVars == <<topics, ipc, output, serr, configPublished>>
vars == <<splitVars, syncVars>>

Instances == 1..NInstances

SyncIdle ==
    /\ topics = [t \in {"network-config", "new-born-status"} |-> <<>>]
    /\ ipc = [n \in Instances |-> "start"]
    /\ output = [n \in Instances |-> <<>>]
    /\ serr = [n \in Instances |-> "nil"]
    /\ configPublished = FALSE

SplitLocalsInit ==
    /\ currentShareCount = 0
    /\ txShares = NoShares
    /\ evdShares = NoShares
    /\ msgIndexes = NilIndexes
    /\ padding = NoShares
    /\ msgShares = NoShares
    /\ tailShares = NoShares
    /\ cursor = 0
    /\ indexes = NilIndexes
    /\ i = 0
    /\ writer = NoShares
    /\ smErr = "nil"
    /\ shares = NoShares
    /\ err = "nil"
    /\ outcome = "running"

Init ==
    /\ pc = "start"
    /\ squareSize \in SquareSizes
    /\ txs = <<>>
    /\ evidence = <<>>
    /\ msgs = <<>>
    /\ SplitLocalsInit
    /\ SyncIdle

wantShareCount == squareSize * squareSize

Return(e) ==
    /\ pc' = "done"
    /\ err' = e
    /\ outcome' = "returned"

Panic ==
    /\ pc' = "done"
    /\ outcome' = "panicked"

(* ------------------------------- Split -------------------------------- *)
\* lines 22-26
Split_CheckSquareSize ==
    /\ pc = "start"
    /\ IF squareSize = 0 \/ ~powerOf2(squareSize)
       THEN Return("ErrSquareSizeNotPowerOfTwo")
       ELSE pc' = "txs" /\ UNCHANGED <<err, outcome>>
    /\ UNCHANGED <<squareSize, txs, evidence, msgs, currentShareCount,
                   txShares, evdShares, msgIndexes, padding, msgShares,
                   tailShares, cursor, indexes, i, writer, smErr, shares>>
    /\ UNCHANGED syncVars

\* lines 28-29
Split_Txs ==
    /\ pc = "txs"
    /\ txs' \in TxLists
    /\ txShares' = SplitTxs(txs')
    /\ currentShareCount' = currentShareCount + Len(txShares')
    /\ pc' = "evidence"
    /\ UNCHANGED <<squareSize, evidence, msgs, evdShares, msgIndexes,
                   padding, msgShares, tailShares, cursor, indexes, i, writer,
                   smErr, shares, err, outcome>>
    /\ UNCHANGED syncVars

\* lines 31-35
Split_Evidence ==
    /\ pc = "evidence"
    /\ evidence' \in EvdLists
    /\ IF EvidenceFails(evidence')
       THEN /\ Return("ErrEvidenceEncoding")
            /\ UNCHANGED <<evdShares, currentShareCount>>
       ELSE /\ evdShares' = SplitEvidence(evidence')
            /\ currentShareCount' = currentShareCount + Len(evdShares')
            /\ pc' = "indexes"
            /\ UNCHANGED <<err, outcome>>
    /\ UNCHANGED <<squareSize, txs, msgs, txShares, msgIndexes,
                   padding, msgShares, tailShares, cursor, indexes, i, writer,
                   smErr, shares>>
    /\ UNCHANGED syncVars

\* line 40
Split_ExtractIndexes ==
    /\ pc = "indexes"
    /\ msgIndexes' = ExtractShareIndexes(txs)
    /\ pc' = "sort"
    /\ UNCHANGED <<squareSize, txs, evidence, msgs, currentShareCount,
                   txShares, evdShares, padding, msgShares, tailShares, cursor,
                   indexes, i, writer, smErr, shares, err, outcome>>
    /\ UNCHANGED syncVars

\* line 41
Split_SortIndexes ==
    /\ pc = "sort"
    /\ msgIndexes' = SortIndexes(msgIndexes)
    /\ pc' = "first"
    /\ UNCHANGED <<squareSize, txs, evidence, msgs, currentShareCount,
                   txShares, evdShares, padding, msgShares, tailShares, cursor,
                   indexes, i, writer, smErr, shares, err, outcome>>
    /\ UNCHANGED syncVars

\* A variant that only rejects a first index below the share count.
FirstIndexBelow(ix, count) == ~ix.nil /\ ix.elems[1] < count

\* lines 43-46
FirstIndexUnexpected(ix, count) == ~ix.nil /\ ix.elems[1] # count

Split_CheckFirstIndex ==
    /\ pc = "first"
    /\ IF FirstIndexUnexpected(msgIndexes, currentShareCount)
       THEN Return("ErrUnexpectedFirstMessageShareIndex")
       ELSE pc' = "align" /\ UNCHANGED <<err, outcome>>
    /\ UNCHANGED <<squareSize, txs, evidence, msgs, currentShareCount,
                   txShares, evdShares, msgIndexes, padding, msgShares,
                   tailShares, cursor, indexes, i, writer, smErr, shares>>
    /\ UNCHANGED syncVars

\* A variant that never looks at the evidence shares.
PaddingNamespaceAlwaysTx(evd) == TxNamespaceID

\* A variant that aligns for the last message instead of the first.
AlignPaddingCountLast(count, m, k) ==
    IF Len(m) > 0
    THEN NextAlignedPowerOfTwo(count, MsgSharesUsed(m[Len(m)].len), k) - count
    ELSE 0

\* lines 48-61, and the call of line 63
PaddingNamespace(evd) ==
    IF Len(evd) > 0 THEN EvidenceNamespaceID ELSE TxNamespaceID

AlignPaddingCount(count, m, k) ==
    IF Len(m) > 0
    THEN NextAlignedPowerOfTwo(count, MsgSharesUsed(m[1].len), k) - count
    ELSE 0

Split_AlignPadding ==
    /\ pc = "align"
    /\ msgs' \in MsgLists
    /\ LET n == AlignPaddingCount(currentShareCount, msgs', squareSize) IN
       IF n < 0
       THEN /\ Panic
            /\ UNCHANGED <<padding, currentShareCount, cursor, indexes>>
       ELSE /\ padding' = namespacedPaddedShares(PaddingNamespace(evdShares), n)
            /\ currentShareCount' = currentShareCount + Len(padding')
            /\ cursor' = currentShareCount'
            /\ indexes' = msgIndexes
            /\ pc' = "messages"
            /\ UNCHANGED outcome
    /\ UNCHANGED <<squareSize, txs, evidence, txShares, evdShares,
                   msgIndexes, msgShares, tailShares, i, writer, smErr, shares,
                   err>>
    /\ UNCHANGED syncVars

(* ---------------------------- SplitMessages ---------------------------- *)
\* A variant without the nil test.
IncorrectNumberOfIndexesNoNil(ix, m) == Len(ix.elems) # Len(m)

\* line 127
IncorrectNumberOfIndexes(ix, m) == ~ix.nil /\ Len(ix.elems) # Len(m)

\* line 134
paddedShareCount(ix, k, count, cur) == ix.elems[k + 1] - (count + cur)

\* lines 131-137: the loop from message k on, w the shares written so far.
\* WriteNamespacedPaddedShares makes a slice of the given length, which
\* panics when that length is negative: the loop then stops at message k.
RECURSIVE WriteMessages(_, _, _, _, _)
WriteMessages(cur, ix, m, k, w) ==
    IF k > Len(m) THEN [i |-> k, writer |-> w, panicked |-> FALSE]
    ELSE LET written == w \o MessageShares(m[k], k) IN
         IF ~ix.nil /\ Len(ix.elems) > k
         THEN LET n == paddedShareCount(ix, k, Len(written), cur) IN
              IF n < 0
              THEN [i |-> k, writer |-> written, panicked |-> TRUE]
              ELSE WriteMessages(cur, ix, m, k + 1,
                                 written \o namespacedPaddedShares(m[k].ns, n))
         ELSE WriteMessages(cur, ix, m, k + 1, written)

\* lines 126-139, called and returning into lines 63-67
SplitMessages ==
    /\ pc = "messages"
    /\ IF IncorrectNumberOfIndexes(indexes, msgs)
       THEN /\ smErr' = "ErrIncorrectNumberOfIndexes"
            /\ Return(smErr')
            /\ UNCHANGED <<i, writer, msgShares, currentShareCount>>
       ELSE LET r == WriteMessages(cursor, indexes, msgs, 1, NoShares) IN
            /\ i' = r.i
            /\ writer' = r.writer
            /\ UNCHANGED smErr
            /\ IF r.panicked
               THEN /\ Panic
                    /\ UNCHANGED <<msgShares, currentShareCount, err>>
               ELSE /\ msgShares' = r.writer
                    /\ currentShareCount' = currentShareCount + Len(msgShares')
                    /\ pc' = "tail"
                    /\ UNCHANGED <<err, outcome>>
    /\ UNCHANGED <<squareSize, txs, evidence, msgs, txShares, evdShares,
                   msgIndexes, padding, tailShares, cursor, indexes, shares>>
    /\ UNCHANGED syncVars

\* lines 69-79
TailCount(want, count) == want - count

\* A variant that leaves the alignment padding out of the result.
AssembleNoPadding(t, e, p, m, tl) == t \o e \o m \o tl

Assemble(t, e, p, m, tl) == t \o e \o p \o m \o tl

Split_TailAndReturn ==
    /\ pc = "tail"
    /\ LET n == TailCount(wantShareCount, currentShareCount) IN
       IF n < 0
       THEN /\ Panic
            /\ UNCHANGED <<tailShares, shares, err>>
       ELSE /\ tailShares' = TailPaddingShares(n)
            /\ shares' = Assemble(txShares, evdShares, padding, msgShares, tailShares')
            /\ Return("nil")
    /\ UNCHANGED <<squareSize, txs, evidence, msgs, currentShareCount,
                   txShares, evdShares, msgIndexes, padding, msgShares, cursor,
                   indexes, i, writer, smErr>>
    /\ UNCHANGED syncVars

Next ==
    \/ Split_CheckSquareSize
    \/ Split_Txs
    \/ Split_Evidence
    \/ Split_ExtractIndexes
    \/ Split_SortIndexes
    \/ Split_CheckFirstIndex
    \/ Split_AlignPadding
    \/ SplitMessages
    \/ Split_TailAndReturn

Spec == Init /\ [][Next]_vars

(* ======================= properties of Split ========================== *)
Succeeded == pc = "done" /\ outcome = "returned" /\ err = "nil"

\* What the transactions declare, stated over the input alone.
WrappedPositions == {j \in 1..Len(txs) : txs[j].wrapped}
DeclaresZero == \E j \in WrappedPositions : txs[j].ShareIndex = 0
DeclaredAbsent == WrappedPositions = {} \/ DeclaresZero
DeclaredIndexes == {txs[j].ShareIndex : j \in WrappedPositions}
DeclaredCount == Cardinality(WrappedPositions)
SmallestDeclared == CHOOSE x \in DeclaredIndexes : \A y \in DeclaredIndexes : x <= y
\* the ShareIndex of the k-th wrapped transaction, in encounter order
KthWrapped(k) ==
    txs[CHOOSE j \in WrappedPositions :
            Cardinality({h \in WrappedPositions : h <= j}) = k].ShareIndex
\* the k-th smallest declared ShareIndex, duplicates counted
Ascending(s) == \A a, b \in 1..Len(s) : a <= b => s[a] <= s[b]
SamePopulation(s) ==
    /\ Len(s) = DeclaredCount
    /\ \A x \in DeclaredIndexes :
          Cardinality({a \in 1..Len(s) : s[a] = x})
              = Cardinality({j \in WrappedPositions : txs[j].ShareIndex = x})
KthSmallestDeclared(k) ==
    (CHOOSE s \in [1..DeclaredCount -> DeclaredIndexes] :
        Ascending(s) /\ SamePopulation(s))[k]

\* 0-based position in the returned sequence of the first share of message m
FirstShareOf(m) ==
    (CHOOSE p \in 1..Len(shares) :
        shares[p].kind = "msg" /\ shares[p].msg = m /\ shares[p].part = 1) - 1

\* Split has run past the named step (and did not return before it)
PastIndexCheck ==
    \/ pc \in {"align", "messages", "tail"}
    \/ pc = "done" /\ err \notin {"ErrSquareSizeNotPowerOfTwo", "ErrEvidenceEncoding"}
PastAlignment ==
    \/ pc \in {"messages", "tail"}
    \/ pc = "done" /\ err \notin {"ErrSquareSizeNotPowerOfTwo", "ErrEvidenceEncoding",
                                  "ErrUnexpectedFirstMessageShareIndex"}
PastSplitMessagesCheck == smErr # "nil" \/ i >= 1
PastMessages == pc \in {"tail", "done"} /\ i > Len(msgs)

\* C1: whenever Split returns without error the returned sequence has
\* exactly squareSize * squareSize shares.
C1_TotalSize == Succeeded => Len(shares) = squareSize * squareSize

C1_Witness ==
    /\ Succeeded
    /\ Len(txShares) > 0 /\ Len(evdShares) > 0 /\ Len(padding) > 0
    /\ Len(msgShares) > 0 /\ Len(tailShares) > 0

\* C2: whenever the cursor after transactions, evidence, alignment padding
\* and messages exceeds squareSize * squareSize, Split returns a square
\* overflow error and no shares.
C2_SquareOverflowError ==
    (pc = "done" /\ PastMessages /\ wantShareCount - currentShareCount < 0)
        => (outcome = "returned" /\ err = "ErrSquareOverflow" /\ shares = NoShares)

\* C3: in every successful Split with a non-nil index set, the first share of
\* the k-th message sits at the k-th smallest declared ShareIndex.
C3_MessagesAtDeclaredIndex ==
    (Succeeded /\ ~DeclaredAbsent)
        => \A k \in 1..Len(msgs) : FirstShareOf(k) = KthSmallestDeclared(k)

\* C4: a non-nil index set whose smallest value differs from
\* len(txShares) + len(evdShares) makes Split return
\* ErrUnexpectedFirstMessageShareIndex and no shares; a nil index set never
\* gives that error.
C4_FirstIndexCrossCheck ==
    /\ (PastIndexCheck /\ ~DeclaredAbsent
            /\ SmallestDeclared # Len(txShares) + Len(evdShares))
        => /\ pc = "done" /\ outcome = "returned"
           /\ err = "ErrUnexpectedFirstMessageShareIndex"
           /\ shares = NoShares
    /\ DeclaredAbsent => err # "ErrUnexpectedFirstMessageShareIndex"

C4_Witness ==
    /\ pc = "done" /\ err = "ErrUnexpectedFirstMessageShareIndex"
    /\ Len(evdShares) > 0
    /\ DeclaredCount = 2 /\ KthWrapped(1) > KthWrapped(2)

\* C5: SplitMessages returns ErrIncorrectNumberOfIndexes exactly when the
\* index set is non-nil and its length differs from the number of messages,
\* and then nothing has been written.
C5_AllOrNothingIndexing ==
    PastSplitMessagesCheck =>
        /\ (smErr = "ErrIncorrectNumberOfIndexes")
              <=> (~DeclaredAbsent /\ DeclaredCount # Len(msgs))
        /\ smErr # "nil" => writer = NoShares /\ msgShares = NoShares
        /\ (smErr # "nil" /\ pc = "done") => err = smErr /\ shares = NoShares
        /\ (DeclaredAbsent /\ pc = "done") => err # "ErrIncorrectNumberOfIndexes"

C5_Witness ==
    /\ pc = "done" /\ err = "ErrIncorrectNumberOfIndexes"
    /\ Len(msgs) > 0 /\ DeclaredCount > 0

\* C6: ExtractShareIndexes returns nil if some wrapped transaction carries
\* ShareIndex 0, and otherwise the ShareIndex of every wrapped transaction in
\* encounter order, duplicates included, and nothing for unwrapped ones.
C6_ExtractShareIndexes ==
    pc = "sort" =>
        IF DeclaresZero
        THEN msgIndexes = NilIndexes
        ELSE /\ Len(msgIndexes.elems) = DeclaredCount
             /\ \A k \in 1..DeclaredCount : msgIndexes.elems[k] = KthWrapped(k)
             /\ msgIndexes.nil <=> DeclaredCount = 0

C6_Witness ==
    /\ pc = "sort"
    /\ msgIndexes = NilIndexes
    /\ DeclaredCount = 2 /\ KthWrapped(1) # 0 /\ KthWrapped(2) = 0

NamespacesNonDecreasing(s) == \A a \in 1..Len(s) - 1 : s[a].ns <= s[a + 1].ns
\* The caller's ordering contract for MessagesList.
MessagesSorted ==
    /\ \A a \in 1..Len(msgs) - 1 : msgs[a].ns <= msgs[a + 1].ns
    /\ \A a \in 1..Len(msgs) :
          EvidenceNamespaceID <= msgs[a].ns /\ msgs[a].ns <= TailPaddingNamespaceID

\* C7 as stated: the namespaces of every returned sequence are
\* non-decreasing, for any input.
C7_NamespaceOrderAnyInput == Succeeded => NamespacesNonDecreasing(shares)

\* C7 amended: the namespaces of every returned sequence are non-decreasing
\* when the messages are given in non-decreasing namespace order with
\* namespaces between the evidence and the tail-padding namespace; the
\* alignment padding carries the namespace of the region before it and the
\* padding after a message that message's namespace.
C7_NamespaceOrder ==
    Succeeded =>
        /\ MessagesSorted => NamespacesNonDecreasing(shares)
        /\ \A a \in 1..Len(padding) :
              padding[a].ns =
                  IF Len(evdShares) > 0 THEN EvidenceNamespaceID ELSE TxNamespaceID
        /\ \A a \in 1..Len(msgShares) :
              msgShares[a].kind = "pad" => msgShares[a].ns = msgShares[a - 1].ns

C7_Witness ==
    /\ Succeeded /\ MessagesSorted
    /\ Len(msgs) = 2 /\ msgs[1].ns < msgs[2].ns
    /\ Len(evdShares) > 0 /\ Len(padding) > 0
    /\ \E a \in 1..Len(msgShares) : msgShares[a].kind = "pad"

\* The alignment rule stated on its own: the largest power of two that
\* exceeds neither L nor W, and the smallest multiple of it from c on.
PowersOfTwo == {2 ^ k : k \in 0..(MaxSquareSize + MaxMsgShares)}
AlignUnit(L, W) ==
    CHOOSE u \in PowersOfTwo :
        /\ u <= L /\ u <= W
        /\ \A v \in PowersOfTwo : (v <= L /\ v <= W) => v <= u
SmallestAligned(c, L, W) ==
    LET u == AlignUnit(L, W)
        aligned == {a \in c..(c + W) : a % u = 0}
    IN  CHOOSE a \in aligned : \A b \in aligned : a <= b
\* The example: size 4, one 1-share transaction, no evidence, one 2-share
\* message.
ExampleShares ==
    <<Share(TxNamespaceID, "tx", 0, 0), Share(TxNamespaceID, "pad", 0, 0)>>
        \o [j \in 1..2 |-> Share(msgs[1].ns, "msg", 1, j)]
        \o [j \in 1..12 |-> Share(TailPaddingNamespaceID, "tail", 0, 0)]
IsExample ==
    /\ squareSize = 4 /\ Len(txs) = 1 /\ Len(evidence) = 0
    /\ Len(msgs) = 1 /\ msgs[1].len = 2

\* C8: with at least one message Split places exactly alignedStart - cursor
\* >= 0 padding shares between the evidence region and the messages, so that
\* the first message begins at the smallest offset >= cursor that is a
\* multiple of the largest power of two not exceeding min(L, W); with no
\* message it places none; and the size-4 example comes out as stated.
C8_AlignmentExactness ==
    PastAlignment =>
        LET c == Len(txShares) + Len(evdShares) IN
        IF Len(msgs) = 0 THEN Len(padding) = 0
        ELSE LET start == SmallestAligned(c, msgs[1].len, squareSize) IN
             /\ Len(padding) = NextAlignedPowerOfTwo(c, msgs[1].len, squareSize) - c
             /\ Len(padding) >= 0
             /\ c + Len(padding) = start
             /\ Succeeded =>
                   /\ FirstShareOf(1) = start
                   /\ \A a \in (c + 1)..start : shares[a].kind = "pad"
                   /\ IsExample => shares = ExampleShares

C8_Witness == Succeeded /\ IsExample /\ shares = ExampleShares

\* C9: a negative padding count between two messages makes the call fail
\* with an error and return no shares.
NegativePadComputed ==
    /\ pc = "done"
    /\ i \in 1..Len(msgs)
    /\ ~indexes.nil /\ Len(indexes.elems) > i
    /\ indexes.elems[i + 1] - (Len(writer) + cursor) < 0
C9_NegativePaddingRejected ==
    NegativePadComputed => (outcome = "returned" /\ err # "nil" /\ shares = NoShares)


(* ----------------------- SyncStatus (sync.go) -------------------------- *)
\* The sync service keeps, per topic, the entries published so far; a
\* subscription delivers a topic's entries from the first one, in order.
Status(n) == [type |-> "Status", GlobalSequence |-> n]
Config == [type |-> "Config", GlobalSequence |-> 0]

\* line 22: the topic publishNewBornStatus publishes on (line 78)
NewBornStatusTopic == "new-born-status"
\* line 21: the topic downloadNewBornStatuses hands to DownloadSync (line 83)
ConfigTopic == "network-config"
DownloadTopic == ConfigTopic

\* runenv.TestInstanceCount
TestInstanceCount == NInstances

InitSync ==
    /\ pc = "idle"
    /\ squareSize = 0
    /\ txs = <<>>
    /\ evidence = <<>>
    /\ msgs = <<>>
    /\ SplitLocalsInit
    /\ SyncIdle

\* lines 41-44: the leader publishes the network configuration
PublishConfig ==
    /\ ~configPublished
    /\ configPublished' = TRUE
    /\ topics' = [topics EXCEPT ![ConfigTopic] = Append(@, Config)]
    /\ UNCHANGED <<ipc, output, serr>>
    /\ UNCHANGED splitVars

\* lines 58, 66-80
publishNewBornStatus(n) ==
    /\ ipc[n] = "start"
    /\ topics' = [topics EXCEPT ![NewBornStatusTopic] = Append(@, Status(n))]
    /\ ipc' = [ipc EXCEPT ![n] = "published"]
    /\ UNCHANGED <<output, serr, configPublished>>
    /\ UNCHANGED splitVars

\* lines 63, 82-93: Subscribe with a chan Status. The topic handed over
\* carries Config payloads: the sync client either refuses the channel's
\* element type or subscribes to that topic.
DownloadSync_Subscribe(n) ==
    /\ ipc[n] = "published"
    /\ \/ /\ DownloadTopic # NewBornStatusTopic
          /\ ipc' = [ipc EXCEPT ![n] = "done"]
          /\ serr' = [serr EXCEPT ![n] = "ErrSubscribe"]
       \/ /\ ipc' = [ipc EXCEPT ![n] = "subscribed"]
          /\ UNCHANGED serr
    /\ UNCHANGED <<topics, output, configPublished>>
    /\ UNCHANGED splitVars

\* lines 94-105: one receive from ch; the loop ends after count receives
DownloadSync_Receive(n) ==
    /\ ipc[n] = "subscribed"
    /\ Len(output[n]) < Len(topics[DownloadTopic])
    /\ output' = [output EXCEPT ![n] = Append(@, topics[DownloadTopic][Len(@) + 1])]
    /\ ipc' = [ipc EXCEPT ![n] =
                 IF Len(output'[n]) >= TestInstanceCount THEN "done" ELSE @]
    /\ UNCHANGED <<topics, serr, configPublished>>
    /\ UNCHANGED splitVars

NextSync ==
    \/ PublishConfig
    \/ \E n \in Instances : publishNewBornStatus(n)
    \/ \E n \in Instances : DownloadSync_Subscribe(n)
    \/ \E n \in Instances : DownloadSync_Receive(n)

\* Every test instance is a running process and the leader publishes its
\* configuration: each enabled step is eventually taken.
SpecSync ==
    /\ InitSync
    /\ [][NextSync]_vars
    /\ WF_vars(PublishConfig)
    /\ \A n \in Instances :
          /\ WF_vars(publishNewBornStatus(n))
          /\ WF_vars(DownloadSync_Subscribe(n))
          /\ WF_vars(DownloadSync_Receive(n))

(* ===================== properties of SyncStatus ======================= *)
AllPublished == Len(topics[NewBornStatusTopic]) = TestInstanceCount
Collected(n) ==
    /\ ipc[n] = "done" /\ serr[n] = "nil"
    /\ output[n] = topics[NewBornStatusTopic]

\* C10: once all instances have published their status, every instance's
\* SyncStatus eventually returns, without error, the published statuses in
\* arrival order.
C10_StatusExchangeCompletes == AllPublished ~> (\A n \in Instances : Collected(n))

====
